---- MODULE Spec2Model ----
(***************************************************************************)
(* Model of AmazonOrderExtractor (src/amazon_order_extractor.py): the      *)
(* traversal controller run() with its two modes (full scan, targeted      *)
(* search with fallback scan), page extraction, and the export step.       *)
(* The browser is the environment: every awaited driver call either        *)
(* succeeds with a nondeterministically chosen page or raises.             *)
(* An Order is represented by its order_id; ids are 1..NumIds.             *)
(***************************************************************************)
EXTENDS Integers, Sequences, FiniteSets, TLC

\* ---- bounds ------------------------------------------------------------
NumIds == 2
MaxCards == 2
MaxSitePages == 3
MaxCeiling == 2

Ids == 1..NumIds

\* ---- order cards and page extraction -----------------------------------
\* None: the absent value (Python None); no order id equals it.
None == 0
\* an order card without an order-id sub-element
NoIdCard == 0 - 1
\* an order card whose extraction raises an unexpected exception
FaultCard == 0 - 2

Cards == Ids \cup {NoIdCard, FaultCard}

SeqsUpTo(S, n) == UNION {[1..k -> S] : k \in 0..n}

PageContents == SeqsUpTo(Cards, MaxCards)

NextStates == {"absent", "disabled", "enabled"}

\* extract_order_info without the "if not order_id_element" return
extract_order_info_keeps_missing_id(card) ==
    IF card = FaultCard THEN None ELSE card

\* extract_order_info: None for a card without id element, None when the
\* extraction faults (exception caught inside), else the Order.
extract_order_info(card) ==
    IF card = NoIdCard THEN None
    ELSE IF card = FaultCard THEN None
    ELSE card

RECURSIVE extract_orders_abort_on_fault(_)
\* the loop with the try/except around the whole loop: a faulting card
\* ends the extraction of the page
extract_orders_abort_on_fault(cards) ==
    IF cards = <<>> THEN <<>>
    ELSE IF Head(cards) = FaultCard THEN <<>>
    ELSE LET order == extract_order_info(Head(cards))
         IN  IF order # None
             THEN <<order>> \o extract_orders_abort_on_fault(Tail(cards))
             ELSE extract_orders_abort_on_fault(Tail(cards))

RECURSIVE extract_orders(_)
\* the loop of extract_orders_from_page over the order cards of the page
extract_orders(cards) ==
    IF cards = <<>> THEN <<>>
    ELSE LET order == extract_order_info(Head(cards))
         IN  IF order # None
             THEN <<order>> \o extract_orders(Tail(cards))
             ELSE extract_orders(Tail(cards))

RECURSIVE Concat(_)
Concat(ss) == IF ss = <<>> THEN <<>> ELSE Head(ss) \o Concat(Tail(ss))

Range(s) == {s[i] : i \in 1..Len(s)}

Count(s, x) == Cardinality({i \in 1..Len(s) : s[i] = x})

NoDuplicates(s) == \A i, j \in 1..Len(s) : s[i] = s[j] => i = j

\* ---- the found-set membership filters ----------------------------------
RECURSIVE keep_unfound_any_id(_, _, _)
\* keep_unfound with the target-set membership test left out
keep_unfound_any_id(os, targets, found) ==
    IF os = <<>> THEN <<>>
    ELSE IF Head(os) \notin found
         THEN <<Head(os)>> \o keep_unfound_any_id(Tail(os), targets, found \cup {Head(os)})
         ELSE keep_unfound_any_id(Tail(os), targets, found)

RECURSIVE keep_unfound(_, _, _)
\* loop body of search_all_target_orders: append an order iff its id is a
\* target and not yet found; found grows as the loop proceeds.
keep_unfound(os, targets, found) ==
    IF os = <<>> THEN <<>>
    ELSE IF Head(os) \in targets /\ Head(os) \notin found
         THEN <<Head(os)>> \o keep_unfound(Tail(os), targets, found \cup {Head(os)})
         ELSE keep_unfound(Tail(os), targets, found)

RECURSIVE filter_loop_no_found_check(_, _, _)
\* filter_loop with the found-set membership test left out
filter_loop_no_found_check(os, targets, found) ==
    IF os = <<>> THEN <<>>
    ELSE IF Head(os) \in targets
         THEN <<Head(os)>> \o filter_loop_no_found_check(Tail(os), targets, found)
         ELSE filter_loop_no_found_check(Tail(os), targets, found)

RECURSIVE filter_loop(_, _, _)
\* the for loop of filter_target_orders
filter_loop(os, targets, found) ==
    IF os = <<>> THEN <<>>
    ELSE IF Head(os) \in targets /\ Head(os) \notin found
         THEN <<Head(os)>> \o filter_loop(Tail(os), targets, found \cup {Head(os)})
         ELSE filter_loop(Tail(os), targets, found)

\* filter_target_orders: everything when there is no target set
filter_target_orders(os, targets, found) ==
    IF targets = {} THEN os ELSE filter_loop(os, targets, found)

\* missing_orders = self.target_order_ids - self.found_order_ids
missing_orders_ignoring_found(targets, found) == targets

missing_orders(targets, found) == targets \ found

\* has_next_page that does not look at aria-disabled
has_next_page_ignoring_disabled(ctl) ==
    IF ctl = "absent" THEN FALSE ELSE TRUE

\* has_next_page: False when the control is absent or aria-disabled
has_next_page(ctl) ==
    IF ctl = "absent" THEN FALSE
    ELSE IF ctl = "disabled" THEN FALSE
    ELSE TRUE

\* the ceiling test off by one
ceiling_reached_off_by_one(maxPages, pageNum) ==
    maxPages # 0 /\ pageNum > maxPages + 1

\* the page-count ceiling test at the head of the scan loop
ceiling_reached(maxPages, pageNum) == maxPages # 0 /\ pageNum > maxPages

\* ---- field parsers and single-card extraction --------------------------
MaxTextLen == 3

\* characters of a quantity text: two digits and a non-digit
QtyChars == {"0", "3", "x"}

QtyTexts == SeqsUpTo(QtyChars, MaxTextLen)

IsDigit(c) == c \in {"0", "3"}

DigitVal(c) == IF c = "3" THEN 3 ELSE 0

RECURSIVE int_of_digits(_, _, _)
\* int(match.group(0)): value of the digit run of text that starts at i
int_of_digits(text, i, acc) ==
    IF i > Len(text) \/ ~IsDigit(text[i]) THEN acc
    ELSE int_of_digits(text, i + 1, acc * 10 + DigitVal(text[i]))

\* extract_quantity: 1 for an absent or empty text, the first integer
\* substring (re.search(r'\d+')) when there is one, else 1
extract_quantity(text) ==
    IF text = <<>> THEN 1
    ELSE LET digits == {i \in 1..Len(text) : IsDigit(text[i])}
         IN  IF digits # {}
             THEN int_of_digits(text, CHOOSE i \in digits : \A j \in digits : i <= j, 0)
             ELSE 1

\* the layouts extract_date tries, in order
DateFormats ==
    <<"%B %d, %Y", "%b %d, %Y", "%d %B %Y", "%d %b %Y", "%Y-%m-%d", "%m/%d/%Y">>

\* a date-like text: its layout ("absent": no or empty text; "other": a
\* layout extract_date does not know) and the day number written in it
DateTexts ==
    {[layout |-> "absent", day |-> 0]}
        \cup [layout : Range(DateFormats) \cup {"other"}, day : {5, 45}]

NoText == [layout |-> "absent", day |-> 0]

NoDate == [kind |-> "none", day |-> 0]

Now == [kind |-> "now", day |-> 0]

\* datetime.strptime succeeds for a known layout with a day of the month
strptime_ok(text, format) == text.layout = format /\ text.day \in 1..31

\* extract_date: None for no text, the first layout that parses, else None
extract_date(text) ==
    IF text.layout = "absent" THEN NoDate
    ELSE IF \E i \in 1..Len(DateFormats) : strptime_ok(text, DateFormats[i])
         THEN [kind |-> "date", day |-> text.day]
         ELSE NoDate

\* the innerText.match(/(?:January|...)\s+\d+,\s+\d{4}/) of the fallback:
\* the first text of the card written as full month name, digits, year
month_name_match(texts) ==
    LET hits == {i \in 1..Len(texts) : texts[i].layout = "%B %d, %Y"}
    IN  IF hits = {} THEN NoText
        ELSE texts[CHOOSE i \in hits : \A j \in hits : i <= j]

\* an item element: has it a name link, a quantity element, and its text
ItemViews ==
    [hasName : BOOLEAN, hasQty : {FALSE}, qtyText : {<<>>}]
        \cup [hasName : BOOLEAN, hasQty : {TRUE}, qtyText : QtyTexts]

\* extract_item_info: name "" without name element, quantity 1 without
\* quantity element, else extract_quantity of its text
extract_item_info(item_element) ==
    [name |-> IF item_element.hasName THEN "name" ELSE "",
     quantity |-> IF item_element.hasQty
                  THEN extract_quantity(item_element.qtyText) ELSE 1]

\* no OrderItem extracted (yet)
NoItem == [name |-> "", quantity |-> 1]

\* an order card: has it an order-id element, the text of its first date
\* element, a further date-like text in its inner text, and one item element
OrderViews ==
    [hasId : BOOLEAN, dateEl : DateTexts, otherText : DateTexts,
     item : ItemViews]

NoView ==
    [hasId |-> FALSE, dateEl |-> NoText, otherText |-> NoText,
     item |-> [hasName |-> FALSE, hasQty |-> FALSE, qtyText |-> <<>>]]

\* the order date extract_order_info computes: the date element, then the
\* month-name scan of the inner text, then now() when the scan has no match
order_date_of(order_element) ==
    LET first == extract_date(order_element.dateEl)
        date_text == month_name_match(<<order_element.dateEl,
                                        order_element.otherText>>)
    IN  IF first # NoDate THEN first
        ELSE IF date_text # NoText THEN extract_date(date_text)
        ELSE Now

\* extract_order_info on one card: <<>> (None) without id element; Order(...)
\* rejects an absent order_date and the except clause turns that into None
extract_order_view(order_element) ==
    IF ~order_element.hasId THEN <<>>
    ELSE LET order_date == order_date_of(order_element)
             item == extract_item_info(order_element.item)
         IN  IF order_date = NoDate THEN <<>>
             ELSE <<[order_id |-> 1, order_date |-> order_date,
                     items |-> IF item.name # "" THEN <<item>> ELSE <<>>]>>

VARIABLES
    pc,                 \* position of run()
    ORDER_NUMBERS,      \* config.ORDER_NUMBERS (as a set; {} when unset)
    MAX_PAGES,          \* config.MAX_PAGES (0 when None/unset)
    browser,            \* self.browser is set
    target_order_ids,   \* self.target_order_ids
    found_order_ids,    \* self.found_order_ids
    orders,             \* self.orders
    all_found_orders,   \* local of search_all_target_orders
    searched,           \* targets the for loop has already visited
    all_orders,         \* local of extract_all_orders
    page_num,           \* local of extract_all_orders
    nextCtl,            \* state of the "next" control on the browser's page
    sitePage,           \* listing page the browser shows (0: not on listing)
    pagesLog,           \* orders extracted from each scanned page, in order
    nextLog,            \* for each listing page visited, its "next" control
    searchSeen,         \* ids of the orders extracted from search results
    clicks,             \* clicks on the "next" control
    stopReason,         \* why extract_all_orders left its loop
    error,              \* step at which an exception was raised, or "none"
    reported,           \* the except clause of run() printed the error
    closeAttempted,     \* browser.close() was called
    raisedOut,          \* an exception left run()
    csvFile, jsonFile,  \* "none" | "written" | "failed"
    csvRows, jsonRows,  \* record sequence handed to each writer
    lastCards,          \* order cards of the page extracted last
    lastOrders,         \* what extract_orders_from_page returned for them
    interrupted,        \* an external interrupt cancelled run()
    view,               \* the order card handed to extract_order_info
    record,             \* its result: <<>> (None) or <<Order>>
    item,               \* the OrderItem extract_item_info returned for it
    vpc                 \* "idle" | "extract" | "extracted"

vars == <<pc, ORDER_NUMBERS, MAX_PAGES, browser, target_order_ids,
          found_order_ids, orders, all_found_orders, searched, all_orders,
          page_num, nextCtl, sitePage, pagesLog, nextLog, searchSeen, clicks,
          stopReason, error, reported, closeAttempted, raisedOut,
          csvFile, jsonFile, csvRows, jsonRows, lastCards, lastOrders,
          interrupted, view, record, item, vpc>>

cfgVars == <<ORDER_NUMBERS, MAX_PAGES>>
selfVars == <<target_order_ids, found_order_ids, orders>>
searchVars == <<all_found_orders, searched, searchSeen>>
scanVars == <<all_orders, page_num, pagesLog, stopReason>>
envVars == <<nextCtl, sitePage, nextLog, clicks>>
fileVars == <<csvFile, jsonFile, csvRows, jsonRows>>
endVars == <<reported, closeAttempted, raisedOut>>
pageVars == <<lastCards, lastOrders>>
viewVars == <<view, record, item, vpc>>

\* __init__ plus the configuration main.py supplies
RunInit ==
    /\ pc = "setup"
    /\ ORDER_NUMBERS \in SUBSET Ids
    /\ MAX_PAGES \in 0..MaxCeiling
    /\ browser = FALSE
    /\ target_order_ids = {}
    /\ found_order_ids = {}
    /\ orders = <<>>
    /\ all_found_orders = <<>>
    /\ searched = {}
    /\ all_orders = <<>>
    /\ page_num = 1
    /\ nextCtl = "absent"
    /\ sitePage = 0
    /\ pagesLog = <<>>
    /\ nextLog = <<>>
    /\ searchSeen = {}
    /\ clicks = 0
    /\ stopReason = "none"
    /\ error = "none"
    /\ reported = FALSE
    /\ closeAttempted = FALSE
    /\ raisedOut = FALSE
    /\ csvFile = "none"
    /\ jsonFile = "none"
    /\ csvRows = <<>>
    /\ jsonRows = <<>>
    /\ lastCards = <<>>
    /\ lastOrders = <<>>
    /\ interrupted = FALSE

\* a run of the extractor: no order card is under extraction yet
Init ==
    /\ RunInit
    /\ view = NoView
    /\ record = <<>>
    /\ item = NoItem
    /\ vpc = "idle"

\* an exception raised inside the try block of run()
Raise(step) ==
    /\ error' = step
    /\ pc' = "except"

\* the "next" control a freshly loaded listing page n may show
NextChoices(n) ==
    IF n >= MaxSitePages THEN {"absent", "disabled"} ELSE NextStates

\* setup(): launching the browser fails, opening the page fails, or all is
\* set up and the target set is taken from the configuration.
Setup ==
    /\ pc = "setup"
    /\ \/ /\ Raise("launch")
          /\ UNCHANGED <<browser, target_order_ids>>
       \/ /\ browser' = TRUE
          /\ Raise("setup")
          /\ UNCHANGED target_order_ids
       \/ /\ browser' = TRUE
          /\ target_order_ids' = ORDER_NUMBERS
          /\ pc' = IF ORDER_NUMBERS # {} THEN "nav_search" ELSE "nav_orders"
          /\ UNCHANGED error
    /\ UNCHANGED <<cfgVars, found_order_ids, orders, searchVars, scanVars,
                   envVars, fileVars, endVars>>
    /\ UNCHANGED <<pageVars, viewVars, interrupted>>

\* search_all_target_orders: navigate_to_search_page()
NavigateToSearchPage ==
    /\ pc = "nav_search"
    /\ \/ Raise("navigate_to_search_page")
       \/ pc' = "search" /\ UNCHANGED error
    /\ UNCHANGED <<cfgVars, browser, selfVars, searchVars, scanVars, envVars,
                   fileVars, endVars>>
    /\ UNCHANGED <<pageVars, viewVars, interrupted>>

\* one iteration of the for loop of search_all_target_orders:
\* search_for_order(order_number), the found-set filter, the pause.
SearchForOrder ==
    /\ pc = "search"
    /\ \E order_number \in target_order_ids \ searched :
         \/ /\ Raise("search_for_order")
            /\ UNCHANGED <<found_order_ids, searchVars, pageVars>>
         \/ \E cards \in PageContents :
              LET result == extract_orders(cards)
                  kept == keep_unfound(result, target_order_ids, found_order_ids)
              IN  /\ all_found_orders' = all_found_orders \o kept
                  /\ found_order_ids' = found_order_ids \cup Range(kept)
                  /\ searchSeen' = searchSeen \cup Range(result)
                  /\ searched' = searched \cup {order_number}
                  /\ lastCards' = cards
                  /\ lastOrders' = result
                  /\ UNCHANGED <<pc, error>>
    /\ UNCHANGED <<cfgVars, browser, target_order_ids, orders, scanVars,
                   envVars, fileVars, endVars>>
    /\ UNCHANGED <<viewVars, interrupted>>

\* the for loop is exhausted: search_all_target_orders returns, run() stores
\* the result and starts the fallback scan iff targets are missing.
SearchReturn ==
    /\ pc = "search"
    /\ searched = target_order_ids
    /\ orders' = all_found_orders
    /\ pc' = IF missing_orders(target_order_ids, found_order_ids) # {}
             THEN "nav_orders" ELSE "save"
    /\ UNCHANGED <<cfgVars, browser, target_order_ids, found_order_ids,
                   searchVars, scanVars, envVars, fileVars, endVars, error>>
    /\ UNCHANGED <<pageVars, viewVars, interrupted>>

\* navigate_to_orders(): loads listing page 1 (or raises)
NavigateToOrders ==
    /\ pc = "nav_orders"
    /\ \/ /\ Raise("navigate_to_orders")
          /\ UNCHANGED envVars
       \/ /\ \E ctl \in NextChoices(1) :
               /\ nextCtl' = ctl
               /\ nextLog' = <<ctl>>
          /\ sitePage' = 1
          /\ pc' = "scan_page"
          /\ UNCHANGED <<clicks, error>>
    /\ UNCHANGED <<cfgVars, browser, selfVars, searchVars, scanVars,
                   fileVars, endVars>>
    /\ UNCHANGED <<pageVars, viewVars, interrupted>>

\* the scan loop writing the CSV file after every extracted page
ScanPageSavesEachPage ==
    /\ pc = "scan_page"
    /\ IF ceiling_reached(MAX_PAGES, page_num)
       THEN /\ stopReason' = "max_pages"
            /\ pc' = "scan_return"
            /\ UNCHANGED <<all_orders, pagesLog, error, pageVars, fileVars>>
       ELSE \/ /\ Raise("extract_orders_from_page")
               /\ UNCHANGED <<all_orders, pagesLog, stopReason, pageVars,
                              fileVars>>
            \/ \E cards \in PageContents :
                 LET page_orders == extract_orders(cards)
                 IN  /\ all_orders' = all_orders \o page_orders
                     /\ pagesLog' = Append(pagesLog, page_orders)
                     /\ lastCards' = cards
                     /\ lastOrders' = page_orders
                     /\ csvFile' = "written"
                     /\ csvRows' = all_orders \o page_orders
                     /\ pc' = "has_next"
                     /\ UNCHANGED <<stopReason, error, jsonFile, jsonRows>>
    /\ UNCHANGED <<cfgVars, browser, selfVars, searchVars, page_num, envVars,
                   endVars, viewVars, interrupted>>

\* head of the while loop of extract_all_orders: the ceiling test, then
\* extract_orders_from_page() and the extend.
ScanPage ==
    /\ pc = "scan_page"
    /\ IF ceiling_reached(MAX_PAGES, page_num)
       THEN /\ stopReason' = "max_pages"
            /\ pc' = "scan_return"
            /\ UNCHANGED <<all_orders, pagesLog, error, pageVars>>
       ELSE \/ /\ Raise("extract_orders_from_page")
               /\ UNCHANGED <<all_orders, pagesLog, stopReason, pageVars>>
            \/ \E cards \in PageContents :
                 LET page_orders == extract_orders(cards)
                 IN  /\ all_orders' = all_orders \o page_orders
                     /\ pagesLog' = Append(pagesLog, page_orders)
                     /\ lastCards' = cards
                     /\ lastOrders' = page_orders
                     /\ pc' = "has_next"
                     /\ UNCHANGED <<stopReason, error>>
    /\ UNCHANGED <<cfgVars, browser, selfVars, searchVars, page_num, envVars,
                   fileVars, endVars>>
    /\ UNCHANGED <<viewVars, interrupted>>

\* the has_next_page() test of the loop
HasNextPage ==
    /\ pc = "has_next"
    /\ IF has_next_page(nextCtl)
       THEN pc' = "go_next" /\ UNCHANGED stopReason
       ELSE pc' = "scan_return" /\ stopReason' = "no_next"
    /\ UNCHANGED <<cfgVars, browser, selfVars, searchVars, all_orders,
                   page_num, pagesLog, envVars, fileVars, endVars, error>>
    /\ UNCHANGED <<pageVars, viewVars, interrupted>>

\* go_to_next_page reporting False although the click went through and the
\* next page was loaded
GoToNextPageFalseAfterClick ==
    /\ pc = "go_next"
    /\ \/ /\ stopReason' = "nav_failed"
          /\ pc' = "scan_return"
          /\ clicks' = clicks + 1
          /\ sitePage' = sitePage + 1
          /\ \E ctl \in NextChoices(sitePage + 1) :
               /\ nextCtl' = ctl
               /\ nextLog' = Append(nextLog, ctl)
          /\ UNCHANGED <<page_num, error>>
       \/ /\ clicks' = clicks + 1
          /\ \/ /\ Raise("go_to_next_page")
                /\ UNCHANGED <<page_num, nextCtl, sitePage, nextLog, stopReason>>
             \/ /\ sitePage' = sitePage + 1
                /\ \E ctl \in NextChoices(sitePage + 1) :
                     /\ nextCtl' = ctl
                     /\ nextLog' = Append(nextLog, ctl)
                /\ page_num' = page_num + 1
                /\ pc' = "scan_page"
                /\ UNCHANGED <<stopReason, error>>
    /\ UNCHANGED <<cfgVars, browser, selfVars, searchVars, all_orders,
                   pagesLog, fileVars, endVars>>
    /\ UNCHANGED <<pageVars, viewVars, interrupted>>

\* go_to_next_page() and the increment of page_num: the control is queried
\* again (it may have vanished: return False), clicked, and the new page
\* awaited; click and waits may raise.
GoToNextPage ==
    /\ pc = "go_next"
    /\ \/ /\ stopReason' = "nav_failed"
          /\ pc' = "scan_return"
          /\ UNCHANGED <<page_num, envVars, error>>
       \/ /\ clicks' = clicks + 1
          /\ \/ /\ Raise("go_to_next_page")
                /\ UNCHANGED <<page_num, nextCtl, sitePage, nextLog, stopReason>>
             \/ /\ sitePage' = sitePage + 1
                /\ \E ctl \in NextChoices(sitePage + 1) :
                     /\ nextCtl' = ctl
                     /\ nextLog' = Append(nextLog, ctl)
                /\ page_num' = page_num + 1
                /\ pc' = "scan_page"
                /\ UNCHANGED <<stopReason, error>>
    /\ UNCHANGED <<cfgVars, browser, selfVars, searchVars, all_orders,
                   pagesLog, fileVars, endVars>>
    /\ UNCHANGED <<pageVars, viewVars, interrupted>>

\* extract_all_orders returns to run(): in targeted mode the result is
\* filtered and appended, otherwise it becomes self.orders.
ScanReturn ==
    /\ pc = "scan_return"
    /\ IF ORDER_NUMBERS # {}
       THEN LET additional_orders ==
                    filter_target_orders(all_orders, target_order_ids,
                                         found_order_ids)
            IN  /\ orders' = orders \o additional_orders
                /\ found_order_ids' = found_order_ids \cup Range(additional_orders)
       ELSE /\ orders' = all_orders
            /\ UNCHANGED found_order_ids
    /\ pc' = "save"
    /\ UNCHANGED <<cfgVars, browser, target_order_ids, searchVars, scanVars,
                   envVars, fileVars, endVars, error>>
    /\ UNCHANGED <<pageVars, viewVars, interrupted>>

\* "if self.orders:" and save_to_csv(self.orders)
SaveCsv ==
    /\ pc = "save"
    /\ IF orders = <<>>
       THEN /\ pc' = "finally"
            /\ UNCHANGED <<fileVars, error>>
       ELSE \/ /\ csvFile' = "failed"
               /\ Raise("save_to_csv")
               /\ UNCHANGED <<jsonFile, csvRows, jsonRows>>
            \/ /\ csvFile' = "written"
               /\ csvRows' = orders
               /\ pc' = "save_json"
               /\ UNCHANGED <<jsonFile, jsonRows, error>>
    /\ UNCHANGED <<cfgVars, browser, selfVars, searchVars, scanVars, envVars,
                   endVars>>
    /\ UNCHANGED <<pageVars, viewVars, interrupted>>

\* save_to_json(self.orders)
SaveJson ==
    /\ pc = "save_json"
    /\ \/ /\ jsonFile' = "failed"
          /\ Raise("save_to_json")
          /\ UNCHANGED jsonRows
       \/ /\ jsonFile' = "written"
          /\ jsonRows' = orders
          /\ pc' = "finally"
          /\ UNCHANGED error
    /\ UNCHANGED <<cfgVars, browser, selfVars, searchVars, scanVars, envVars,
                   endVars, csvFile, csvRows>>
    /\ UNCHANGED <<pageVars, viewVars, interrupted>>

\* except Exception as e: print(...)
Except ==
    /\ pc = "except"
    /\ reported' = TRUE
    /\ pc' = "finally"
    /\ UNCHANGED <<cfgVars, browser, selfVars, searchVars, scanVars, envVars,
                   fileVars, error, closeAttempted, raisedOut>>
    /\ UNCHANGED <<pageVars, viewVars, interrupted>>

\* close() reached only on the normal path (not from a finally clause)
FinallyCloseOnlyOnSuccess ==
    /\ pc = "finally"
    /\ IF browser /\ error = "none"
       THEN /\ closeAttempted' = TRUE
            /\ raisedOut' \in BOOLEAN
       ELSE UNCHANGED <<closeAttempted, raisedOut>>
    /\ pc' = "done"
    /\ UNCHANGED <<cfgVars, browser, selfVars, searchVars, scanVars, envVars,
                   fileVars, error, reported>>
    /\ UNCHANGED <<pageVars, viewVars, interrupted>>

\* finally: sleep, then close(): browser.close() only when a browser is set;
\* a failing close leaves run() as an exception.
Finally ==
    /\ pc = "finally"
    /\ IF browser
       THEN /\ closeAttempted' = TRUE
            /\ raisedOut' \in BOOLEAN
       ELSE UNCHANGED <<closeAttempted, raisedOut>>
    /\ pc' = "done"
    /\ UNCHANGED <<cfgVars, browser, selfVars, searchVars, scanVars, envVars,
                   fileVars, error, reported>>
    /\ UNCHANGED <<pageVars, viewVars, interrupted>>

\* positions at which run() is suspended in an awaited browser call of the
\* setup or the traversal
AwaitPositions ==
    {"setup", "nav_search", "search", "nav_orders", "scan_page", "has_next",
     "go_next"}

\* Ctrl+C while the traversal is suspended: the task is cancelled, which
\* "except Exception" does not catch; the finally clause still runs.
Interrupt ==
    /\ pc \in AwaitPositions
    /\ ~interrupted
    /\ interrupted' = TRUE
    /\ pc' = "finally"
    /\ UNCHANGED <<cfgVars, browser, selfVars, searchVars, scanVars, envVars,
                   fileVars, endVars, pageVars, viewVars, error>>

Next ==
    \/ Setup
    \/ NavigateToSearchPage
    \/ SearchForOrder
    \/ SearchReturn
    \/ NavigateToOrders
    \/ ScanPage
    \/ HasNextPage
    \/ GoToNextPage
    \/ ScanReturn
    \/ SaveCsv
    \/ SaveJson
    \/ Except
    \/ Finally
    \/ Interrupt

Spec == Init /\ [][Next]_vars

\* the event loop runs run() to its end: no step waits forever, since every
\* wait carries a timeout
FairSpec == Spec /\ WF_vars(Next)

\* ---- extraction of a single order card ----------------------------------
\* an order card of a loaded page is about to be handed to extract_order_info
ViewInit ==
    /\ RunInit
    /\ ORDER_NUMBERS = {}
    /\ MAX_PAGES = 0
    /\ view \in OrderViews
    /\ record = <<>>
    /\ item = NoItem
    /\ vpc = "extract"

\* order = await self.extract_order_info(order_element), with the
\* extract_item_info call it makes for the item element of a card with id
ExtractOrderInfo ==
    /\ vpc = "extract"
    /\ record' = extract_order_view(view)
    /\ item' = IF view.hasId THEN extract_item_info(view.item) ELSE NoItem
    /\ vpc' = "extracted"
    /\ UNCHANGED <<cfgVars, browser, selfVars, searchVars, scanVars, envVars,
                   fileVars, endVars, pageVars, pc, error, interrupted, view>>

ViewNext == ExtractOrderInfo

ViewSpec == ViewInit /\ [][ViewNext]_vars

TypeOK ==
    /\ pc \in {"setup", "nav_search", "search", "nav_orders", "scan_page",
               "has_next", "go_next", "scan_return", "save", "save_json",
               "except", "finally", "done"}
    /\ ORDER_NUMBERS \subseteq Ids
    /\ MAX_PAGES \in 0..MaxCeiling
    /\ page_num \in 1..(MaxSitePages + 1)
    /\ sitePage \in 0..MaxSitePages
    /\ nextCtl \in NextStates
    /\ found_order_ids \subseteq target_order_ids

\* ---- properties --------------------------------------------------------
Targeted == ORDER_NUMBERS # {}

\* positions of the fallback / full scan (navigate_to_orders to the return)
ScanPositions == {"nav_orders", "scan_page", "has_next", "go_next", "scan_return"}

\* traversal is over and self.orders is final
TraversalDone == pc \in {"save", "save_json"}

\* ids of the orders extracted from the scanned listing pages
scanSeen == Range(Concat(pagesLog))

\* C1: the record set handed to the export writers never holds two orders
\* with the same orderId, in either traversal mode.
C1_ExportHasUniqueIds ==
    /\ NoDuplicates(csvRows)
    /\ NoDuplicates(jsonRows)

\* C2 as stated: every order id seen both in the search results and in the
\* fallback scan pages has exactly one record in the final output.
C2_AnyIdSeenTwiceExactlyOnce ==
    (Targeted /\ TraversalDone) =>
        \A id \in searchSeen \cap scanSeen : Count(orders, id) = 1

\* C2 amended: every TARGET order id seen both in the search results and in
\* the fallback scan pages has exactly one record in the final record list,
\* and in each file written from it.
C2_TargetIdSeenTwiceExactlyOnce ==
    Targeted =>
        \A id \in target_order_ids \cap searchSeen \cap scanSeen :
            /\ TraversalDone => Count(orders, id) = 1
            /\ csvFile = "written" => Count(csvRows, id) = 1
            /\ jsonFile = "written" => Count(jsonRows, id) = 1

C2_Witness ==
    /\ Targeted
    /\ jsonFile = "written"
    /\ \E id \in target_order_ids \cap searchSeen :
         /\ Count(Concat(pagesLog), id) >= 1
         /\ Count(jsonRows, id) = 1
         /\ Len(jsonRows) = 2

\* C3: with no page ceiling, an advance is only ever attempted from a page
\* whose "next" control is enabled, no page behind a page with an absent or
\* disabled control is visited, and a scan that returns from page k (the
\* first page whose control is absent or disabled) has extracted exactly
\* pages 1..k and returns their orders concatenated in page order.
C3_ScanStopsAtLastPage ==
    MAX_PAGES = 0 =>
        /\ clicks <= Len(nextLog)
        /\ \A i \in 1..clicks : nextLog[i] = "enabled"
        /\ \A i \in 1..(Len(nextLog) - 1) : nextLog[i] = "enabled"
        /\ Len(pagesLog) <= Len(nextLog)
        /\ (pc = "scan_return" /\ nextLog[Len(nextLog)] # "enabled") =>
              /\ stopReason = "no_next"
              /\ Len(pagesLog) = Len(nextLog)
              /\ sitePage = Len(nextLog)
              /\ clicks = Len(nextLog) - 1
              /\ all_orders = Concat(pagesLog)

C3_Witness ==
    /\ MAX_PAGES = 0
    /\ ORDER_NUMBERS = {}
    /\ pc = "scan_return"
    /\ nextLog = <<"enabled", "enabled", "disabled">>
    /\ Len(pagesLog) = 3
    /\ \A i \in 1..3 : pagesLog[i] # <<>>

\* C4: a failed advance (the click or one of the waits raises) after a page
\* was extracted makes extract_all_orders return what it accumulated: the
\* scan goes to its return with all_orders intact and no exception reaches
\* run().
C4_AdvanceFailureReturns ==
    [][(pc = "go_next" /\ clicks' = clicks + 1 /\ sitePage' = sitePage)
          => (pc' = "scan_return" /\ error' = "none"
              /\ all_orders' = all_orders)]_vars

\* the steps of the traversal that can raise
TraversalFaults ==
    {"search_for_order", "navigate_to_orders", "extract_orders_from_page",
     "go_to_next_page"}

\* orders accumulated by the traversal so far
Accumulated == IF Targeted THEN all_found_orders ELSE all_orders

\* C5: a run that accumulated at least one order and then failed during
\* traversal has, when it ends, written those orders to both files.
C5_PartialResultsWritten ==
    (pc = "done" /\ error \in TraversalFaults /\ Accumulated # <<>>) =>
        /\ csvFile = "written"
        /\ jsonFile = "written"
        /\ Range(Accumulated) \subseteq Range(csvRows)
        /\ Range(Accumulated) \subseteq Range(jsonRows)

\* C6: with a page ceiling k >= 1 at most k pages are extracted; the scan
\* returns the concatenated orders of the extracted pages, and a scan ended
\* by the ceiling (the control still enabled) has extracted exactly k pages.
C6_CeilingBoundsPages ==
    MAX_PAGES >= 1 =>
        /\ Len(pagesLog) <= MAX_PAGES
        /\ pc = "scan_return" =>
              /\ all_orders = Concat(pagesLog)
              /\ stopReason = "max_pages" => Len(pagesLog) = MAX_PAGES
              /\ (Len(pagesLog) = MAX_PAGES /\ nextLog[MAX_PAGES] = "enabled")
                    => stopReason \in {"max_pages", "nav_failed"}

C6_Witness ==
    /\ MAX_PAGES = 2
    /\ pc = "scan_return"
    /\ stopReason = "max_pages"
    /\ nextLog[2] = "enabled"
    /\ sitePage = 3
    /\ Len(pagesLog) = 2
    /\ Len(all_orders) >= 2

\* C7: in targeted mode every record collected, kept in self.orders or
\* handed to a writer has a target id, and no id is collected twice by the
\* search pass; found_order_ids is exactly the set of collected ids.
C7_OnlyUnfoundTargetsAdded ==
    Targeted =>
        /\ Range(all_found_orders) \subseteq target_order_ids
        /\ Range(orders) \subseteq target_order_ids
        /\ Range(csvRows) \subseteq target_order_ids
        /\ Range(jsonRows) \subseteq target_order_ids
        /\ NoDuplicates(all_found_orders)
        /\ NoDuplicates(orders)
        /\ pc \in {"search"} \cup ScanPositions =>
              found_order_ids = Range(all_found_orders)
        /\ TraversalDone => found_order_ids = Range(orders)

C7_Witness ==
    /\ Targeted
    /\ csvFile = "written"
    /\ csvRows # <<>>
    /\ \E id \in Ids \ target_order_ids : id \in searchSeen \cap scanSeen

\* phase of a targeted run: 1 Searching, 2 FallbackScanning, 3 Done
Phase(p) ==
    IF p \in {"setup", "nav_search", "search"} THEN 1
    ELSE IF p \in ScanPositions THEN 2
    ELSE 3

\* C8: a targeted run only moves forward through Searching, FallbackScanning,
\* Done; while the fallback scan runs a search was attempted for every
\* target and some target is unfound; the scan is skipped only when no target
\* is unfound; no search result is taken once the scan has started; and the
\* records the fallback adds are exactly the scanned orders with a target id
\* the search pass did not find.
C8_PhaseStep ==
    Targeted =>
        /\ Phase(pc') >= Phase(pc)
        /\ Phase(pc) >= 2 =>
              /\ searched' = searched
              /\ all_found_orders' = all_found_orders
              /\ searchSeen' = searchSeen
        /\ (pc = "search" /\ pc' \notin {"search", "except", "finally"}) =>
              /\ searched = target_order_ids
              /\ pc' = "nav_orders" <=> target_order_ids \ found_order_ids # {}
              /\ pc' = "save" <=> target_order_ids \ found_order_ids = {}

C8_PhaseState ==
    Targeted =>
        /\ pc \in ScanPositions =>
              /\ searched = target_order_ids
              /\ target_order_ids \ found_order_ids # {}
              /\ found_order_ids = Range(all_found_orders)
        /\ Phase(pc) = 1 => (sitePage = 0 /\ pagesLog = <<>> /\ clicks = 0)
        /\ TraversalDone =>
              /\ Len(orders) >= Len(all_found_orders)
              /\ SubSeq(orders, 1, Len(all_found_orders)) = all_found_orders
              /\ Range(SubSeq(orders, Len(all_found_orders) + 1, Len(orders)))
                    = (scanSeen \cap target_order_ids) \ Range(all_found_orders)

C8_PhasesInOrder == [][C8_PhaseStep]_vars /\ []C8_PhaseState

C8_Witness ==
    /\ Targeted
    /\ pc = "save"
    /\ all_found_orders # <<>>
    /\ Len(orders) > Len(all_found_orders)
    /\ stopReason = "no_next"

\* C9: every run whose browser was launched eventually calls close() on it,
\* whether or not a step raised; a raised error is reported by the except
\* clause, and the only exception that can leave run() is one of close().
C9_BrowserClosedErrorReported ==
    /\ browser ~> closeAttempted
    /\ [](pc = "done" /\ error # "none" => reported)
    /\ [](raisedOut => closeAttempted /\ pc = "done")

C9_Witness ==
    /\ pc = "done"
    /\ error = "save_to_json"
    /\ browser
    /\ closeAttempted
    /\ reported
    /\ ~raisedOut

\* C10: the writers are independent: at the end of a run in which one
\* writer failed the other one was attempted.
C10_WritersIndependent ==
    pc = "done" =>
        /\ csvFile = "failed" => jsonFile # "none"
        /\ jsonFile = "failed" => csvFile # "none"

\* a card whose extraction yields an Order: it has an id element and its
\* extraction does not fault
YieldsOrder(card) == card \in Ids

\* C11: a faulting order card drops only itself: page extraction returns
\* exactly the cards that have an id and extract without fault, in page
\* order, and the step that extracted the page raised nothing.
C11_FaultDropsOnlyThatOrder ==
    /\ lastOrders = SelectSeq(lastCards, YieldsOrder)
    /\ pc = "has_next" =>
          /\ error = "none"
          /\ pagesLog[Len(pagesLog)] = lastOrders

C11_Witness ==
    /\ pc = "has_next"
    /\ Len(pagesLog) = 2
    /\ pagesLog[1] = <<1>>
    /\ lastCards = <<FaultCard, 2>>
    /\ all_orders = <<1, 2>>

\* C12: an order card with an id element always yields a record with a
\* date; when neither the date element nor the month-name scan gives a
\* parseable date, that date is the current timestamp.
C12_DateFallsBackToNow ==
    (vpc = "extracted" /\ view.hasId) =>
        /\ record # <<>>
        /\ record[1].order_date # NoDate
        /\ (/\ extract_date(view.dateEl) = NoDate
            /\ extract_date(month_name_match(<<view.dateEl, view.otherText>>))
                  = NoDate)
              => record[1].order_date = Now

\* C13: an order card without an id element yields no record: page
\* extraction returns no more records than the page has cards with an id
\* element, and no record without an order id is accumulated, kept or written
\* in either traversal mode.
C13_NoRecordWithoutId ==
    /\ Len(lastOrders) <= Len(lastCards) - Count(lastCards, NoIdCard)
    /\ \A s \in {lastOrders, all_orders, all_found_orders, orders, csvRows,
                 jsonRows, Concat(pagesLog)} : Range(s) \subseteq Ids

C13_Witness ==
    /\ ORDER_NUMBERS = {}
    /\ lastCards = <<NoIdCard, 1>>
    /\ lastOrders = <<1>>
    /\ csvRows = <<1>>
    /\ jsonFile = "written"

\* C14: every OrderItem extract_item_info produces has a quantity >= 1,
\* whatever the quantity text is.
C14_QuantityAtLeastOne ==
    (vpc = "extracted" /\ view.hasId) => item.quantity >= 1

\* the traversal of this run has finished: the scan returned, or the search
\* pass found every target
TraversalFinished ==
    \/ stopReason # "none"
    \/ Targeted /\ searched = target_order_ids
                /\ target_order_ids \subseteq found_order_ids

C15_WriteState ==
    /\ pc \in AwaitPositions \cup {"scan_return", "save"} =>
          (csvFile = "none" /\ jsonFile = "none")
    /\ (csvFile # "none" \/ jsonFile # "none") =>
          (TraversalFinished /\ ~interrupted)
    /\ (interrupted \/ error \in TraversalFaults) =>
          (csvFile = "none" /\ jsonFile = "none")
    /\ csvFile = "written" => csvRows = orders
    /\ jsonFile = "written" => jsonRows = orders

C15_WriteStep ==
    /\ csvFile # "none" => (csvFile' = csvFile /\ csvRows' = csvRows)
    /\ jsonFile # "none" => (jsonFile' = jsonFile /\ jsonRows' = jsonRows)
    /\ (csvFile' # csvFile \/ jsonFile' # jsonFile) => orders' = orders

\* C15: each output file is written at most once per run, from the final
\* self.orders and only after the traversal has finished; while pages are
\* traversed, and after an interrupt or error during traversal, no file has
\* been touched.
C15_WritesOnlyAfterTraversal == []C15_WriteState /\ [][C15_WriteStep]_vars

C15_Witness ==
    /\ pc = "done"
    /\ csvFile = "written"
    /\ jsonFile = "written"
    /\ stopReason = "no_next"
    /\ Len(pagesLog) = 2
    /\ Len(csvRows) >= 2

\* successful advances of the browser to a next listing page
Advances == IF sitePage = 0 THEN 0 ELSE sitePage - 1

\* C16 as stated: whenever the scan returns, the number of successful
\* advances is the number of extracted pages minus one, also when the
\* page-count ceiling ended the scan.
C16_AdvancesArePagesMinusOne ==
    pc = "scan_return" => Advances = Len(pagesLog) - 1

\* C16 amended: a scan that returns because the control was absent, disabled
\* or had vanished made one advance less than it extracted pages; a scan
\* ended by the ceiling k extracted k pages and made k advances, the last one
\* to page k+1, which it does not extract.  While the scan runs the browser
\* is on the page extracted last or on the next one.
C16_AdvancesVersusPages ==
    /\ pc \in {"has_next", "go_next"} => Advances = Len(pagesLog) - 1
    /\ pc = "scan_page" => Advances = Len(pagesLog)
    /\ pc = "scan_return" =>
          IF stopReason = "max_pages"
          THEN Advances = Len(pagesLog) /\ Len(pagesLog) = MAX_PAGES
          ELSE Advances = Len(pagesLog) - 1

C16_Witness ==
    /\ ORDER_NUMBERS = {}
    /\ MAX_PAGES = 1
    /\ pc = "scan_return"
    /\ stopReason = "max_pages"
    /\ sitePage = 2
    /\ Len(pagesLog) = 1
    /\ clicks = 1
====
